---- MODULE Spec2Model ----
(***************************************************************************)
(* Model of stelloauth: the /oauth handler, the browser-driven login flow  *)
(* (main.go, chromedp) and the manual HTTP login flow (the net/http        *)
(* variant with followRedirects).  One request is followed from its        *)
(* arrival to its response; the portal, the browser and the 120 s timer    *)
(* are the environment.                                                    *)
(***************************************************************************)
EXTENDS Integers, Sequences, FiniteSets, TLC

(* ---------------------------------------------------------------------- *)
(* Bounds of the model                                                     *)
(* ---------------------------------------------------------------------- *)

\* Portal requests one run may issue before the model stops counting.
MaxRequests == 13

(* ---------------------------------------------------------------------- *)
(* Strings (strings.HasPrefix, strings.Contains, strings.Index)            *)
(* ---------------------------------------------------------------------- *)

HasPrefix(s, p) == Len(s) >= Len(p) /\ SubSeq(s, 1, Len(p)) = p

\* TRUE iff sub occurs in s at (1-based) position i.
OccursAt(s, sub, i) ==
    /\ i >= 1
    /\ i + Len(sub) - 1 <= Len(s)
    /\ SubSeq(s, i, i + Len(sub) - 1) = sub

\* First position >= from at which sub occurs in s, 0 when there is none.
IndexFrom(s, sub, from) ==
    LET n    == Len(sub)
        hits == { k \in from .. (Len(s) - n + 1) :
                    k >= 1 /\ SubSeq(s, k, k + n - 1) = sub }
    IN  IF hits = {} THEN 0 ELSE CHOOSE k \in hits : \A j \in hits : k <= j

Contains(s, sub) == \E k \in 1 .. (Len(s) - Len(sub) + 1) : OccursAt(s, sub, k)

CharAt(s, i) == SubSeq(s, i, i)

IsQuote(c) == c = "\"" \/ c = "'"

\* End (exclusive) of the longest run of characters that are not in the
\* set stop, starting at position i.
SpanNot(s, stop, i) ==
    LET stops == { k \in i .. Len(s) : CharAt(s, k) \in stop }
    IN  IF stops # {} THEN CHOOSE k \in stops : \A j \in stops : k <= j
        ELSE IF i > Len(s) THEN i ELSE Len(s) + 1


(* ---------------------------------------------------------------------- *)
(* strings.ToLower, url.QueryEscape, url.Parse(..).Query().Get             *)
(* ---------------------------------------------------------------------- *)

UpperLetters == "ABCDEFGHIJKLMNOPQRSTUVWXYZ"
LowerLetters == "abcdefghijklmnopqrstuvwxyz"

LowerChar(c) ==
    LET k == IndexFrom(UpperLetters, c, 1)
    IN  IF k = 0 THEN c ELSE CharAt(LowerLetters, k)

RECURSIVE ToLowerFrom(_, _)
ToLowerFrom(s, k) ==
    IF k > Len(s) THEN ""
    ELSE LowerChar(CharAt(s, k)) \o ToLowerFrom(s, k + 1)

ToLower(s) == ToLowerFrom(s, 1)

\* url.QueryEscape on the characters that occur in a redirect URI: letters,
\* digits and - _ . ~ are kept, a space becomes +, the rest is %XX.
EscapeChar(c) ==
    CASE c = ":" -> "%3A"
      [] c = "/" -> "%2F"
      [] c = "?" -> "%3F"
      [] c = "=" -> "%3D"
      [] c = "&" -> "%26"
      [] c = " " -> "+"
      [] OTHER   -> c

RECURSIVE QueryEscapeFrom(_, _)
QueryEscapeFrom(s, k) ==
    IF k > Len(s) THEN ""
    ELSE EscapeChar(CharAt(s, k)) \o QueryEscapeFrom(s, k + 1)

QueryEscape(s) == QueryEscapeFrom(s, 1)

\* The character that %XX stands for, for the codes url.QueryEscape writes
\* above and the double quote; any other %XX is left as it is.
UnescapeHex(hex) ==
    CASE hex = "3A" -> ":"
      [] hex = "2F" -> "/"
      [] hex = "3F" -> "?"
      [] hex = "3D" -> "="
      [] hex = "26" -> "&"
      [] hex = "20" -> " "
      [] hex = "22" -> "\""
      [] OTHER      -> "%" \o hex

\* url.QueryUnescape: + is a space, %XX the character with that code.
RECURSIVE QueryUnescapeFrom(_, _)
QueryUnescapeFrom(s, k) ==
    IF k > Len(s) THEN ""
    ELSE IF CharAt(s, k) = "%" /\ k + 2 <= Len(s)
    THEN UnescapeHex(SubSeq(s, k + 1, k + 2)) \o QueryUnescapeFrom(s, k + 3)
    ELSE IF CharAt(s, k) = "+" THEN " " \o QueryUnescapeFrom(s, k + 1)
    ELSE CharAt(s, k) \o QueryUnescapeFrom(s, k + 1)

QueryUnescape(s) == QueryUnescapeFrom(s, 1)

\* url.Parse rejects a URL that holds an ASCII control character.
ParseFails(u) == \E c \in {"\t", "\n", "\r", "\f"} : IndexFrom(u, c, 1) # 0

\* The raw query of a URL: what follows the first ? up to a # fragment.
RawQuery(u) ==
    LET noFrag == SubSeq(u, 1, SpanNot(u, {"#"}, 1) - 1)
        q      == IndexFrom(noFrag, "?", 1)
    IN  IF q = 0 THEN "" ELSE SubSeq(noFrag, q + 1, Len(noFrag))

\* Value of the first key=value pair of query q (pairs start at i) whose key
\* is key, key and value unescaped; "" when there is none.
RECURSIVE QueryGetFrom(_, _, _)
QueryGetFrom(q, key, i) ==
    IF i > Len(q) THEN ""
    ELSE LET e    == SpanNot(q, {"&"}, i)
             pair == SubSeq(q, i, e - 1)
             eq   == IndexFrom(pair, "=", 1)
             k    == IF eq = 0 THEN pair ELSE SubSeq(pair, 1, eq - 1)
             v    == IF eq = 0 THEN "" ELSE SubSeq(pair, eq + 1, Len(pair))
         IN  IF QueryUnescape(k) = key THEN QueryUnescape(v)
             ELSE QueryGetFrom(q, key, e + 1)

QueryGet(u, key) == QueryGetFrom(RawQuery(u), key, 1)

(* ---------------------------------------------------------------------- *)
(* Configuration (configs.json / the remote configs document)              *)
(* ---------------------------------------------------------------------- *)

Configs ==
    ( "MyPeugeot" :>
        [ oauth_url |-> "https://idpcvs.peugeot.com",
          realm     |-> "clientsB2CPeugeot",
          scheme    |-> "mymap",
          configs   |-> ( "GB" :> [ locale        |-> "en-GB",
                                    client_id     |-> "cid-gb",
                                    client_secret |-> "sec-gb" ] ) ] )

(* ---------------------------------------------------------------------- *)
(* Requests                                                                *)
(* ---------------------------------------------------------------------- *)

Variants  == {"browser", "manual"}
Methods   == {"POST", "GET", "DELETE"}
Brands    == {"", "MyPeugeot", "Trabant", "My\"Peugeot\""}
Countries == {"", "GB", "ZZ"}
Emails    == {"", "user@example.com"}
Passwords == {"", "secret"}
Accepts   == {"text/event-stream", "application/json"}

\* An incoming /oauth request: its method, whether its body decodes as JSON,
\* the decoded OAuthRequest and the Accept header.
Requests ==
    [ method   : Methods,
      decodes  : BOOLEAN,
      brand    : Brands,
      country  : Countries,
      email    : Emails,
      password : Passwords,
      accept   : Accepts ]

(* ---------------------------------------------------------------------- *)
(* State                                                                   *)
(* ---------------------------------------------------------------------- *)

VARIABLES
    variant,    \* which server handles the request: main.go or the manual one
    req,        \* the incoming request
    pc,         \* where the handler is: a blocking call, or "start" / "done"
    w,          \* the http.ResponseWriter: header, JSON body, SSE events
    ret,        \* what performOAuth returned: (code, err)
    authURL,    \* the authorization URL built for the run
    ctx,        \* timeout context, exec allocator and browser context
    timedOut,   \* the 120 s deadline of the timeout context has passed
    oauthCode,  \* the code captured by the ListenTarget callback
    currentURL, \* followRedirects: the URL of the current hop
    i,          \* followRedirects: the loop counter
    inflight,   \* manual variant: the URL the HTTP client is requesting
    loginData,  \* manual variant: the form values of the login POST
    ops,        \* how often the run has performed each automation step
    call,       \* a call of one of the pure helpers: arguments and result
    sessions,   \* concurrently handled requests: the locals of each run
    access      \* the callback's assignment to oauthCode that is under way

\* The variables that the run of the single request leaves alone.
aside == << call, sessions, access >>

vars == << variant, req, pc, w, ret, authURL, ctx, timedOut, oauthCode,
           currentURL, i, inflight, loginData, ops, call, sessions, access >>

(* ---------------------------------------------------------------------- *)
(* Responses and events                                                    *)
(* ---------------------------------------------------------------------- *)

\* *OAuthData: nil is the empty sequence, a pointer is a one-element one.
NilData == << >>
OAuthData(code) == << [code |-> code] >>

OAuthResponse(status, message, data) ==
    [Status |-> status, Message |-> message, Data |-> data]

\* An encoding without omitempty: every key is always written.
Encode_NoOmitEmpty(r) ==
    [k \in {"status", "message", "data"} |->
        CASE k = "status"  -> r.Status
          [] k = "message" -> r.Message
          [] k = "data"    -> IF r.Data # NilData THEN r.Data[1] ELSE "null"]

\* json.Encoder.Encode of an OAuthResponse: message and data carry
\* omitempty, so an empty message and a nil data are left out.
Encode(r) ==
    LET keys == {"status"}
                \cup (IF r.Message # "" THEN {"message"} ELSE {})
                \cup (IF r.Data # NilData THEN {"data"} ELSE {})
    IN  [k \in keys |-> CASE k = "status"  -> r.Status
                          [] k = "message" -> r.Message
                          [] k = "data"    -> r.Data[1]]

\* The ResponseWriter before anything is written: status 0 means that no
\* header has been sent yet.
NewResponseWriter ==
    [ status      |-> 0,
      contentType |-> "",
      body        |-> << >>,
      events      |-> << >>,
      flushed     |-> 0 ]

sendError(wr, message, statusCode) ==
    [wr EXCEPT !.contentType = "application/json",
               !.status      = statusCode,
               !.body        = Encode(OAuthResponse("error", message, NilData))]

\* sendSuccess never calls WriteHeader: the first write sends 200.
sendSuccess(wr, code) ==
    [wr EXCEPT !.contentType = "application/json",
               !.status      = 200,
               !.body        = Encode(OAuthResponse("success", "", OAuthData(code)))]

\* fmt.Fprintf(w, ...) of one event; the first write sends the header.
Fprintf(wr, text) ==
    [wr EXCEPT !.status = IF @ = 0 THEN 200 ELSE @,
               !.events = Append(@, text)]

\* flusher.Flush(): everything written so far is sent to the client.
Flush(wr) == [wr EXCEPT !.flushed = Len(wr.events)]

ProgressEvent(step) ==
    "data: {\"type\":\"progress\",\"message\":\"" \o step \o "\"}\n\n"
ErrorEvent(message) ==
    "data: {\"type\":\"error\",\"message\":\"" \o message \o "\"}\n\n"
SuccessEvent(code) ==
    "data: {\"type\":\"success\",\"code\":\"" \o code \o "\"}\n\n"

\* handleOAuth takes the SSE branch; the manual server has none.
Streamed == variant = "browser" /\ req.accept = "text/event-stream"

\* A progress callback that writes the event and does not flush it.
progress_NoFlush(wr, step) ==
    IF Streamed THEN Fprintf(wr, ProgressEvent(step)) ELSE wr

\* A progress callback that delivers every phrase twice.
progress_Twice(wr, step) ==
    IF Streamed
    THEN Flush(Fprintf(Flush(Fprintf(wr, ProgressEvent(step))),
                       ProgressEvent(step)))
    ELSE wr

\* The progress callback of handleOAuthSSE; performOAuth(req, nil) has none.
progress(wr, step) ==
    IF Streamed THEN Flush(Fprintf(wr, ProgressEvent(step))) ELSE wr

\* The tail of handleOAuth / handleOAuthSSE once performOAuth has returned.
Respond(wr, code, err) ==
    IF Streamed
    THEN IF err # "" THEN Flush(Fprintf(wr, ErrorEvent(err)))
                     ELSE Flush(Fprintf(wr, SuccessEvent(code)))
    ELSE IF err # "" THEN sendError(wr, err, 400)
                     ELSE sendSuccess(wr, code)

\* performOAuth returns (code, err) and the handler answers.
Return(wr, code, err) ==
    /\ ret' = [returned |-> TRUE, code |-> code, err |-> err]
    /\ w' = Respond(wr, code, err)
    /\ pc' = "done"

(* ---------------------------------------------------------------------- *)
(* handleOAuth                                                             *)
(* ---------------------------------------------------------------------- *)

\* A validation that forgets the password.
RequiredFieldsMissing_NoPassword(r) ==
    r.brand = "" \/ r.country = "" \/ r.email = ""

RequiredFieldsMissing(r) ==
    r.brand = "" \/ r.country = "" \/ r.email = "" \/ r.password = ""

\* A method check that lets GET through as well.
MethodNotAllowed_GetAllowed(r) == r.method \notin {"POST", "GET"}

\* r.Method != http.MethodPost
MethodNotAllowed(r) == r.method # "POST"

\* net/http's ResponseWriter implements http.Flusher, so the "SSE not
\* supported" branch of handleOAuthSSE is not taken by this server.
ResponseWriterFlushes == TRUE

handleOAuthSSE(wr) ==
    IF ~ResponseWriterFlushes
    THEN sendError(wr, "SSE not supported", 500)
    ELSE [wr EXCEPT !.contentType = "text/event-stream"]

HandleOAuth ==
    /\ pc = "start"
    /\ UNCHANGED << aside, loginData, variant, req, ret, authURL, ctx,
                    timedOut, oauthCode, currentURL, i, inflight, ops >>
    /\ IF MethodNotAllowed(req)
       THEN w' = sendError(w, "Method not allowed", 405) /\ pc' = "done"
       ELSE IF ~req.decodes
       THEN w' = sendError(w, "Invalid request body", 400) /\ pc' = "done"
       ELSE IF RequiredFieldsMissing(req)
       THEN w' = sendError(w, "All fields are required", 400) /\ pc' = "done"
       ELSE IF Streamed
       THEN /\ w' = handleOAuthSSE(w)
            /\ pc' = IF ResponseWriterFlushes THEN "perform" ELSE "done"
       ELSE w' = w /\ pc' = "perform"

(* ---------------------------------------------------------------------- *)
(* performOAuth: configuration lookup and authorization URL                *)
(* ---------------------------------------------------------------------- *)

\* An error message that names the country where the brand is meant.
UnknownBrand_NamesCountry(r) == "unknown brand: " \o r.country

UnknownBrand(r) == "unknown brand: " \o r.brand
UnknownCountry(r) ==
    "unknown country for brand " \o r.brand \o ": " \o r.country

\* "" when the brand and country are configured, else the error message.
LookupError(configs, r) ==
    IF r.brand \notin DOMAIN configs THEN UnknownBrand(r)
    ELSE IF r.country \notin DOMAIN configs[r.brand].configs THEN UnknownCountry(r)
    ELSE ""

\* A redirect URI that keeps the country code as the request wrote it.
RedirectURI_KeepsCase(brandConfig, country) ==
    brandConfig.scheme \o "://oauth2redirect/" \o country

RedirectURI(brandConfig, country) ==
    brandConfig.scheme \o "://oauth2redirect/" \o ToLower(country)

\* A builder that sends the client secret along, as a confidential client
\* would.
AuthURL_WithSecret(brandConfig, countryConfig, country) ==
    brandConfig.oauth_url \o "/am/oauth2/authorize?client_id="
        \o countryConfig.client_id
        \o "&client_secret=" \o countryConfig.client_secret
        \o "&response_type=code&redirect_uri="
        \o QueryEscape(RedirectURI(brandConfig, country))
        \o "&scope=openid%20profile%20email&locale="
        \o countryConfig.locale

AuthURL(brandConfig, countryConfig, country) ==
    brandConfig.oauth_url \o "/am/oauth2/authorize?client_id="
        \o countryConfig.client_id
        \o "&response_type=code&redirect_uri="
        \o QueryEscape(RedirectURI(brandConfig, country))
        \o "&scope=openid%20profile%20email&locale="
        \o countryConfig.locale

BrandConfig == Configs[req.brand]
CountryConfig == BrandConfig.configs[req.country]
redirectPrefix == BrandConfig.scheme \o "://"

(* ---------------------------------------------------------------------- *)
(* performChromedpOAuth                                                    *)
(* ---------------------------------------------------------------------- *)

NoContexts == [timeout |-> "none", alloc |-> "none", browser |-> "none"]

\* context.WithTimeout, chromedp.NewExecAllocator, chromedp.NewContext.
NewContexts == [timeout |-> "live", alloc |-> "live", browser |-> "live"]

\* A teardown that forgets the deferred browserCancel.
DeferredCancels_NoBrowser(c) ==
    [c EXCEPT !.timeout = "cancelled", !.alloc = "cancelled"]

\* defer cancel(), defer allocCancel(), defer browserCancel(): all three run
\* on every return of performChromedpOAuth.
DeferredCancels(c) ==
    [timeout |-> "cancelled", alloc |-> "cancelled", browser |-> "cancelled"]

\* How a chromedp.Run call can end: its actions completed, the deadline of
\* the context passed, or the browser reported an error.
RunOutcomes == {"ok", "deadline", "failed"}

CanReturn(o) ==
    /\ o = "ok" => ~timedOut
    /\ o = "deadline" => timedOut

ErrText(o) ==
    IF o = "deadline" THEN "context deadline exceeded" ELSE "browser error"

\* Requests the browser can be seen to send (EventRequestWillBeSent).
ObservedURLs ==
    { "https://idpcvs.peugeot.com/login",
      "https://idpcvs.peugeot.com/callback?code=web999",
      "mymap://oauth2redirect/gb?code=abc123",
      "mymap://oauth2redirect/gb?code=xyz789",
      "mymap://oauth2redirect/gb?error=access_denied" }

\* url.Parse(u).Query().Get("code") of a URL with the redirect prefix,
\* "" for any other URL.
CodeOf(u, prefix) ==
    IF HasPrefix(u, prefix) /\ ~ParseFails(u) THEN QueryGet(u, "code") ELSE ""

\* The ListenTarget callback on one EventRequestWillBeSent.
Captured(code, reqURL, prefix) ==
    IF CodeOf(reqURL, prefix) # "" THEN CodeOf(reqURL, prefix) ELSE code

Count(o, field) == [o EXCEPT ![field] = @ + 1]

\* A performOAuth that starts the browser before it looks the brand up.
PerformOAuth_LaunchFirst ==
    /\ pc = "perform"
    /\ variant = "browser"
    /\ UNCHANGED << aside, loginData, variant, req, timedOut, oauthCode,
                    currentURL, i, inflight >>
    /\ LET w1  == progress(w, "Preparing authentication...")
           err == LookupError(Configs, req)
       IN  IF err # ""
           THEN /\ Return(progress(w1, "Starting browser..."), "", err)
                /\ ctx' = DeferredCancels(NewContexts)
                /\ ops' = Count(Count(ops, "configs"), "contexts")
                /\ UNCHANGED authURL
           ELSE /\ authURL' = AuthURL(BrandConfig, CountryConfig, req.country)
                /\ ctx' = NewContexts
                /\ ops' = Count(Count(Count(ops, "configs"), "contexts"),
                                "navigations")
                /\ w' = progress(progress(w1, "Starting browser..."),
                                 "Loading login page...")
                /\ pc' = "navigate"
                /\ UNCHANGED ret

\* handleOAuth calls performOAuth: progress, lookup, URL, then the start of
\* performChromedpOAuth up to its first chromedp.Run.  configs.json is
\* embedded in the binary, so json.Unmarshal of it does not fail at run time.
PerformOAuth ==
    /\ pc = "perform"
    /\ variant = "browser"
    /\ UNCHANGED << aside, loginData, variant, req, timedOut, oauthCode,
                    currentURL, i, inflight >>
    /\ LET w1  == progress(w, "Preparing authentication...")
           err == LookupError(Configs, req)
       IN  IF err # ""
           THEN /\ Return(w1, "", err)
                /\ ops' = Count(ops, "configs")
                /\ UNCHANGED << authURL, ctx >>
           ELSE /\ authURL' = AuthURL(BrandConfig, CountryConfig, req.country)
                /\ ctx' = NewContexts
                /\ ops' = Count(Count(Count(ops, "configs"), "contexts"),
                                "navigations")
                /\ w' = progress(progress(w1, "Starting browser..."),
                                 "Loading login page...")
                /\ pc' = "navigate"
                /\ UNCHANGED ret

\* A return of performChromedpOAuth: the deferred cancels, then the answer.
ChromedpReturn(wr, code, err) ==
    /\ Return(wr, code, err)
    /\ ctx' = DeferredCancels(ctx)

\* chromedp.Run(network.Enable, Navigate, WaitReady) returns.
NavigateReturn(o) ==
    /\ pc = "navigate"
    /\ CanReturn(o)
    /\ UNCHANGED << aside, loginData, variant, req, authURL, timedOut,
                    oauthCode, currentURL, i, inflight, ops >>
    /\ IF o # "ok"
       THEN ChromedpReturn(w, "", "failed to navigate: " \o ErrText(o))
       ELSE /\ w' = progress(w, "Waiting for login form...")
            /\ pc' = "waitform"
            /\ UNCHANGED << ret, ctx >>

\* A wait for the login form whose error is not looked at.
WaitFormReturn_GoesOn(o) ==
    /\ pc = "waitform"
    /\ CanReturn(o)
    /\ UNCHANGED << aside, loginData, variant, req, authURL, timedOut,
                    oauthCode, currentURL, i, inflight, ops >>
    /\ w' = progress(w, "Entering credentials...")
    /\ pc' = "fill"
    /\ UNCHANGED << ret, ctx >>

\* chromedp.Run(WaitVisible(emailSelector)) returns.  On an error the page
\* HTML is read for the log and the error is returned.
WaitFormReturn(o) ==
    /\ pc = "waitform"
    /\ CanReturn(o)
    /\ UNCHANGED << aside, loginData, variant, req, authURL, timedOut,
                    oauthCode, currentURL, i, inflight, ops >>
    /\ IF o # "ok"
       THEN ChromedpReturn(w, "",
                "login form not found (timeout): " \o ErrText(o))
       ELSE /\ w' = progress(w, "Entering credentials...")
            /\ pc' = "fill"
            /\ UNCHANGED << ret, ctx >>

\* chromedp.Run(WaitVisible(password), SetValue, SetValue, Sleep) returns;
\* on success the submit button is clicked.
FillReturn(o) ==
    /\ pc = "fill"
    /\ CanReturn(o)
    /\ UNCHANGED << aside, loginData, variant, req, authURL, timedOut,
                    oauthCode, currentURL, i, inflight >>
    /\ IF o # "ok"
       THEN /\ ChromedpReturn(w, "",
                    "failed to fill credentials: " \o ErrText(o))
            /\ UNCHANGED ops
       ELSE /\ w' = progress(w, "Submitting login...")
            /\ ops' = Count(ops, "submits")
            /\ pc' = "submit"
            /\ UNCHANGED << ret, ctx >>

\* A submit step that clicks once more when the first click failed.
SubmitReturn_Retry(o) ==
    /\ pc = "submit"
    /\ CanReturn(o)
    /\ UNCHANGED << aside, loginData, variant, req, authURL, timedOut,
                    oauthCode, currentURL, i, inflight >>
    /\ IF o # "ok" /\ ops.submits < 2
       THEN /\ ops' = Count(ops, "submits")
            /\ UNCHANGED << pc, w, ret, ctx >>
       ELSE IF o # "ok"
       THEN /\ ChromedpReturn(w, "", "failed to submit login: " \o ErrText(o))
            /\ UNCHANGED ops
       ELSE IF oauthCode # ""
       THEN /\ ChromedpReturn(progress(w, "Authentication successful!"),
                              oauthCode, "")
            /\ UNCHANGED ops
       ELSE /\ pc' = "probe"
            /\ UNCHANGED << w, ret, ctx, ops >>

\* A submit step without the early exit: the error probe always follows.
SubmitReturn_NoEarlyExit(o) ==
    /\ pc = "submit"
    /\ CanReturn(o)
    /\ UNCHANGED << aside, loginData, variant, req, authURL, timedOut,
                    oauthCode, currentURL, i, inflight, ops >>
    /\ IF o # "ok"
       THEN ChromedpReturn(w, "", "failed to submit login: " \o ErrText(o))
       ELSE /\ pc' = "probe"
            /\ UNCHANGED << w, ret, ctx >>

\* chromedp.Run(Click(submit), Sleep(5s)) returns; then the early exit, or
\* the error probe is started.
SubmitReturn(o) ==
    /\ pc = "submit"
    /\ CanReturn(o)
    /\ UNCHANGED << aside, loginData, variant, req, authURL, timedOut,
                    oauthCode, currentURL, i, inflight, ops >>
    /\ IF o # "ok"
       THEN ChromedpReturn(w, "", "failed to submit login: " \o ErrText(o))
       ELSE IF oauthCode # ""
       THEN ChromedpReturn(progress(w, "Authentication successful!"),
                           oauthCode, "")
       ELSE /\ pc' = "probe"
            /\ UNCHANGED << w, ret, ctx >>

\* Text the error probe can read from the page.
ErrorTexts == {"", "Invalid login or password", "Invalid \"login\""}

\* A probe whose text is never looked at.
ProbeReturn_Ignored(o, text) ==
    /\ pc = "probe"
    /\ CanReturn(o)
    /\ UNCHANGED << aside, loginData, variant, req, authURL, timedOut,
                    oauthCode, currentURL, i, inflight, ops >>
    /\ w' = progress(w, "Waiting for authorization...")
    /\ pc' = "authwait"
    /\ UNCHANGED << ret, ctx >>

\* chromedp.Run(Evaluate(..., &errorText)) returns; its error is dropped and
\* errorText keeps "" unless the evaluation completed.
ProbeReturn(o, text) ==
    /\ pc = "probe"
    /\ CanReturn(o)
    /\ UNCHANGED << aside, loginData, variant, req, authURL, timedOut,
                    oauthCode, currentURL, i, inflight, ops >>
    /\ LET errorText == IF o = "ok" THEN text ELSE ""
       IN  IF errorText # ""
           THEN ChromedpReturn(w, "", "authentication failed: " \o errorText)
           ELSE /\ w' = progress(w, "Waiting for authorization...")
                /\ pc' = "authwait"
                /\ UNCHANGED << ret, ctx >>

\* chromedp.Run(WaitVisible(authorizeSelector)) returns: nil when the button
\* became visible, else an error; the wait has no deadline of its own.
AuthWaitReturn(o) ==
    /\ pc = "authwait"
    /\ CanReturn(o)
    /\ UNCHANGED << aside, loginData, variant, req, ret, authURL, ctx,
                    timedOut, oauthCode, currentURL, i, inflight >>
    /\ IF o = "ok"
       THEN /\ w' = progress(w, "Confirming authorization...")
            /\ ops' = Count(ops, "confirms")
            /\ pc' = "confirm"
       ELSE /\ w' = w
            /\ ops' = ops
            /\ pc' = "settle"

\* chromedp.Run(Click(authorize), Sleep(3s)) returns; its error is dropped.
ConfirmReturn(o) ==
    /\ pc = "confirm"
    /\ CanReturn(o)
    /\ pc' = "settle"
    /\ UNCHANGED << aside, loginData, variant, req, w, ret, authURL, ctx,
                    timedOut, oauthCode, currentURL, i, inflight, ops >>

\* A final check that returns the captured code without looking at it.
SettleReturn_NoCheck(o) ==
    /\ pc = "settle"
    /\ CanReturn(o)
    /\ UNCHANGED << aside, loginData, variant, req, authURL, timedOut,
                    oauthCode, currentURL, i, inflight, ops >>
    /\ ChromedpReturn(w, oauthCode, "")

\* chromedp.Run(Sleep(5s)) returns; its error is dropped.  Then the captured
\* code is checked again, or the current URL is asked for.
SettleReturn(o) ==
    /\ pc = "settle"
    /\ CanReturn(o)
    /\ UNCHANGED << aside, loginData, variant, req, authURL, timedOut,
                    oauthCode, currentURL, i, inflight, ops >>
    /\ IF oauthCode # ""
       THEN ChromedpReturn(w, oauthCode, "")
       ELSE /\ pc' = "location"
            /\ UNCHANGED << w, ret, ctx >>

\* chromedp.Run(Location(&currentURL)) returns; its error is dropped and
\* the URL stays "" unless the call completed.  authError is "" here: it is
\* only assigned right before the return of the login-form failure.
LocationReturn(o, url) ==
    /\ pc = "location"
    /\ CanReturn(o)
    /\ UNCHANGED << aside, loginData, variant, req, authURL, timedOut,
                    oauthCode, currentURL, i, inflight, ops >>
    /\ LET current == IF o = "ok" THEN url ELSE ""
           code    == CodeOf(current, redirectPrefix)
       IN  IF code # ""
           THEN ChromedpReturn(w, code, "")
           ELSE ChromedpReturn(w, "",
                    "authentication failed - could not retrieve OAuth code")

\* The ListenTarget callback runs for a request the browser sends.  Only a
\* request that changes the captured code is a step; EventLoadingFailed
\* writes a log line and changes nothing.
ObserveRequest(reqURL) ==
    /\ pc \in {"navigate", "waitform", "fill", "submit", "probe", "authwait",
               "confirm", "settle", "location"}
    /\ ctx.browser = "live"
    /\ ~timedOut
    /\ oauthCode' = Captured(oauthCode, reqURL, redirectPrefix)
    /\ oauthCode' # oauthCode
    /\ UNCHANGED << aside, loginData, variant, req, pc, w, ret, authURL, ctx,
                    timedOut, currentURL, i, inflight, ops >>

\* The 120 s deadline of the timeout context passes.
Timeout ==
    /\ ctx.timeout = "live"
    /\ ~timedOut
    /\ timedOut' = TRUE
    /\ UNCHANGED << aside, loginData, variant, req, pc, w, ret, authURL, ctx,
                    oauthCode, currentURL, i, inflight, ops >>


(* ---------------------------------------------------------------------- *)
(* Manual HTTP variant: scraping helpers                                   *)
(* ---------------------------------------------------------------------- *)

Quotes == {"\"", "'"}
Whitespace == {" ", "\t", "\n", "\r", "\f"}

Max(S) == CHOOSE x \in S : \A y \in S : y <= x

\* End (exclusive) of the run of whitespace starting at position k.
RECURSIVE SkipSpace(_, _)
SkipSpace(s, k) ==
    IF k > Len(s) \/ CharAt(s, k) \notin Whitespace THEN k
    ELSE SkipSpace(s, k + 1)

\* TRUE iff position k of s starts  ["']([^"']+)["'] .
QuotedAt(s, k) ==
    /\ k <= Len(s)
    /\ IsQuote(CharAt(s, k))
    /\ SpanNot(s, Quotes, k + 1) > k + 1
    /\ SpanNot(s, Quotes, k + 1) <= Len(s)

\* The text captured by  ["']([^"']+)["']  at position k.
QuotedText(s, k) == SubSeq(s, k + 1, SpanNot(s, Quotes, k + 1) - 1)

\* Positions j at which  <form[^>]*action=["']([^"']+)["']  can place its
\* "action=" when the match starts at position p.
FormActionAt(s, p) ==
    IF ~OccursAt(s, "<form", p) THEN {}
    ELSE { j \in (p + 5)..SpanNot(s, {">"}, p + 5) :
             OccursAt(s, "action=", j) /\ QuotedAt(s, j + 7) }

\* Start of the leftmost match of the form pattern at or after from, 0 when
\* the pattern does not match.
RECURSIVE FirstForm(_, _)
FirstForm(s, from) ==
    LET p == IndexFrom(s, "<form", from)
    IN  IF p = 0 THEN 0
        ELSE IF FormActionAt(s, p) # {} THEN p
        ELSE FirstForm(s, p + 1)

\* An extraction that returns the action as the page wrote it.
extractFormAction_Unresolved(html, baseURL) ==
    LET p == FirstForm(html, 1)
    IN  IF p = 0 THEN ""
        ELSE QuotedText(html, Max(FormActionAt(html, p)) + 7)

extractFormAction(html, baseURL) ==
    LET p == FirstForm(html, 1)
    IN  IF p = 0 THEN ""
        ELSE LET action == QuotedText(html, Max(FormActionAt(html, p)) + 7)
             IN  IF HasPrefix(action, "/") THEN baseURL \o action ELSE action

\* Positions j that  [^>]*attr  can reach from position from: attr occurs at
\* j and no > lies between from and j.
AttrAt(s, from, attr) ==
    { j \in from..SpanNot(s, {">"}, from) : OccursAt(s, attr, j) }

\* TRUE iff position t of s starts  type=["']hidden["'] .
HiddenTypeAt(s, t) ==
    /\ OccursAt(s, "type=", t)
    /\ t + 12 <= Len(s)
    /\ IsQuote(CharAt(s, t + 5))
    /\ OccursAt(s, "hidden", t + 6)
    /\ IsQuote(CharAt(s, t + 12))

\* TRUE iff position v of s starts  value=["']([^"']*)["'] .
ValueAt(s, v) ==
    /\ OccursAt(s, "value=", v)
    /\ v + 6 <= Len(s)
    /\ IsQuote(CharAt(s, v + 6))
    /\ SpanNot(s, Quotes, v + 7) <= Len(s)

\* Position after an attribute whose opening quote is at position q.
AfterQuoted(s, q) == SpanNot(s, Quotes, q + 1) + 1

\* The greatest triple of a set of triples, the first component counting
\* most: each [^>]* of a pattern is greedy.
Greediest(T) ==
    CHOOSE x \in T : \A y \in T :
        \/ y[1] < x[1]
        \/ y[1] = x[1] /\ y[2] < x[2]
        \/ y[1] = x[1] /\ y[2] = x[2] /\ y[3] <= x[3]

\* The ways in which the first pattern of extractHiddenFields,
\*   <input[^>]*type=["']hidden["'][^>]*name=["']([^"']+)["'][^>]*value=["']([^"']*)["']
\* matches at position p: the positions << t, n, v >> of its three attributes.
TypeNameValueAt(s, p) ==
    IF ~OccursAt(s, "<input", p) THEN {}
    ELSE UNION { UNION { { << t, n, v >> :
                   v \in { v \in AttrAt(s, AfterQuoted(s, n + 5), "value=") :
                             ValueAt(s, v) } }
                 : n \in { n \in AttrAt(s, t + 13, "name=") :
                             QuotedAt(s, n + 5) } }
               : t \in { t \in AttrAt(s, p + 6, "type=") :
                           HiddenTypeAt(s, t) } }

\* The ways in which the second pattern,
\*   <input[^>]*value=["']([^"']*)["'][^>]*type=["']hidden["'][^>]*name=["']([^"']+)["']
\* matches at position p: the positions << v, t, n >> of its three attributes.
ValueTypeNameAt(s, p) ==
    IF ~OccursAt(s, "<input", p) THEN {}
    ELSE UNION { UNION { { << v, t, n >> :
                   n \in { n \in AttrAt(s, t + 13, "name=") :
                             QuotedAt(s, n + 5) } }
                 : t \in { t \in AttrAt(s, AfterQuoted(s, v + 6), "type=") :
                             HiddenTypeAt(s, t) } }
               : v \in { v \in AttrAt(s, p + 6, "value=") :
                           ValueAt(s, v) } }

\* The text captured by  value=["']([^"']*)["']  at position v.
ValueText(s, v) == SubSeq(s, v + 7, SpanNot(s, Quotes, v + 7) - 1)

\* re.FindAllStringSubmatch(html, -1) for the first pattern: the name and
\* the value of each match, leftmost first, the search going on behind it.
RECURSIVE FindAllTypeNameValue(_, _)
FindAllTypeNameValue(s, from) ==
    LET p == IndexFrom(s, "<input", from)
    IN  IF p = 0 THEN << >>
        ELSE IF TypeNameValueAt(s, p) = {} THEN FindAllTypeNameValue(s, p + 1)
        ELSE LET x == Greediest(TypeNameValueAt(s, p))
             IN  << [name  |-> QuotedText(s, x[2] + 5),
                     value |-> ValueText(s, x[3])] >>
                 \o FindAllTypeNameValue(s, AfterQuoted(s, x[3] + 6))

\* The same for the second pattern.
RECURSIVE FindAllValueTypeName(_, _)
FindAllValueTypeName(s, from) ==
    LET p == IndexFrom(s, "<input", from)
    IN  IF p = 0 THEN << >>
        ELSE IF ValueTypeNameAt(s, p) = {} THEN FindAllValueTypeName(s, p + 1)
        ELSE LET x == Greediest(ValueTypeNameAt(s, p))
             IN  << [name  |-> QuotedText(s, x[3] + 5),
                     value |-> ValueText(s, x[1])] >>
                 \o FindAllValueTypeName(s, AfterQuoted(s, x[3] + 5))

\* A map[string]string (also url.Values with one value per key) without
\* entries, and  fields[name] = value .
NoValues == [k \in {} |-> ""]
Set(fields, name, value) ==
    [k \in DOMAIN fields \cup {name} |->
        IF k = name THEN value ELSE fields[k]]

\* for _, match := range matches { fields[match.name] = match.value }
RECURSIVE SetAll(_, _, _)
SetAll(fields, matches, k) ==
    IF k > Len(matches) THEN fields
    ELSE SetAll(Set(fields, matches[k].name, matches[k].value), matches, k + 1)

extractHiddenFields(html) ==
    SetAll(SetAll(NoValues, FindAllTypeNameValue(html, 1), 1),
           FindAllValueTypeName(html, 1), 1)

\* (?:window\.location|location\.href)\s*=\s*["']([^"']+)["']  at position
\* p: the position of the opening quote, 0 when there is no match at p.
ScriptRedirectAt(s, p) ==
    LET after == IF OccursAt(s, "window.location", p) THEN p + 15
                 ELSE IF OccursAt(s, "location.href", p) THEN p + 13
                 ELSE 0
        eq    == SkipSpace(s, after)
        q     == SkipSpace(s, eq + 1)
    IN  IF after # 0 /\ OccursAt(s, "=", eq) /\ QuotedAt(s, q) THEN q ELSE 0

RECURSIVE FirstScriptRedirect(_, _)
FirstScriptRedirect(s, p) ==
    IF p > Len(s) THEN 0
    ELSE LET q == ScriptRedirectAt(s, p)
         IN  IF q # 0 THEN q ELSE FirstScriptRedirect(s, p + 1)

\* <meta[^>]*http-equiv=["']refresh["'][^>]*content=["'][^"']*url=([^"']+)["']
\* Positions of "url=" for a match that starts at p; each [^..]* is greedy,
\* so the match takes the last of them.
MetaRefreshAt(s, p) ==
    IF ~OccursAt(s, "<meta", p) THEN {}
    ELSE UNION {
           UNION {
             { u \in (c + 9)..SpanNot(s, Quotes, c + 9) :
                 /\ OccursAt(s, "url=", u)
                 /\ SpanNot(s, Quotes, u + 4) > u + 4
                 /\ SpanNot(s, Quotes, u + 4) <= Len(s) }
             : c \in { c \in (h + 20)..SpanNot(s, {">"}, h + 20) :
                         /\ OccursAt(s, "content=", c)
                         /\ c + 8 <= Len(s)
                         /\ IsQuote(CharAt(s, c + 8)) } }
           : h \in { h \in (p + 5)..SpanNot(s, {">"}, p + 5) :
                       /\ OccursAt(s, "http-equiv=", h)
                       /\ h + 19 <= Len(s)
                       /\ IsQuote(CharAt(s, h + 11))
                       /\ OccursAt(s, "refresh", h + 12)
                       /\ IsQuote(CharAt(s, h + 19)) } }

RECURSIVE FirstMetaRefresh(_, _)
FirstMetaRefresh(s, from) ==
    LET p == IndexFrom(s, "<meta", from)
    IN  IF p = 0 THEN 0
        ELSE IF MetaRefreshAt(s, p) # {} THEN p
        ELSE FirstMetaRefresh(s, p + 1)

extractRedirectURL(html) ==
    LET q == FirstScriptRedirect(html, 1)
        m == FirstMetaRefresh(html, 1)
    IN  IF q # 0 THEN QuotedText(html, q)
        ELSE IF m # 0
        THEN LET u == Max(MetaRefreshAt(html, m))
             IN  SubSeq(html, u + 4, SpanNot(html, Quotes, u + 4) - 1)
        ELSE ""

\* An extraction that returns whatever the code parameter holds, without
\* an error for a missing code.
extractCode_NoError(urlStr) ==
    [code |-> QueryGet(urlStr, "code"), err |-> ""]

\* extractCode: (code, nil) or ("", error).
extractCode(urlStr) ==
    LET code == QueryGet(urlStr, "code")
    IN  IF ParseFails(urlStr)
        THEN [code |-> "", err |-> "failed to parse redirect URL"]
        ELSE IF code = ""
        THEN [code |-> "", err |-> "no code found in redirect URL"]
        ELSE [code |-> code, err |-> ""]


(* ---------------------------------------------------------------------- *)
(* Manual HTTP variant: the portal and the HTTP client                     *)
(* ---------------------------------------------------------------------- *)

\* Maximum number of iterations of the followRedirects loop.
MaxHops == 10

NextURL == "https://idpcvs.peugeot.com/next"
CodeURL == "mymap://oauth2redirect/gb?code=abc123"
DeniedURL == "mymap://oauth2redirect/gb?error=access_denied"

Locations == {"", NextURL, CodeURL, DeniedURL}

Bodies ==
    { "<form action=\"/login\" method=\"post\">",
      "<form action=\"/login\"><input type=\"hidden\" name=\"csrf\" value=\"t0k\">",
      "<form action=\"/login\"><input type=\"hidden\" name=\"rememberMe\" value=\"true\">",
      "<div>no form here</div>",
      "<p>invalid credentials</p>",
      "<script>window.location = \"" \o NextURL \o "\"</script>",
      "<script>location.href='" \o CodeURL \o "'</script>",
      "<p class=\"error\"></p><script>location.href='" \o CodeURL
          \o "'</script>",
      "<meta http-equiv=\"refresh\" content=\"0; url=" \o NextURL \o "\">" }

\* What the portal can answer to one request: a response, or no response
\* at all (a transport error).
NetErr == [status |-> 0, location |-> "", body |-> ""]
PortalResponses ==
    [status : {200, 302}, location : Locations, body : Bodies] \cup {NetErr}

IsRedirect(r) == r.status >= 300 /\ r.status < 400

\* http.Client.Get / Do cannot send a request to a URL without http(s).
IsHTTP(u) == HasPrefix(u, "http://") \/ HasPrefix(u, "https://")

\* A CheckRedirect that lets every redirect through.
CheckRedirect_AlwaysNil(target, scheme, via) == "nil"

\* The client's CheckRedirect: ErrUseLastResponse for a target with the
\* custom scheme, nil for every other target, whatever the number of
\* redirects already followed (the default limit of 10 only applies to a
\* client without CheckRedirect).
CheckRedirect(target, scheme, via) ==
    IF HasPrefix(target, scheme \o "://") THEN "ErrUseLastResponse" ELSE "nil"

\* The client follows response r by itself instead of returning it.
ClientFollows(r, scheme, via) ==
    /\ IsRedirect(r)
    /\ r.location # ""
    /\ CheckRedirect(r.location, scheme, via) = "nil"

\* The portal may answer r to the request in flight.
MayAnswer(r) == ~IsHTTP(inflight) => r = NetErr

\* The client follows a redirect: one more request, and the wait goes on.
FollowAutomatically(r) ==
    /\ ops.requests < MaxRequests
    /\ ops' = Count(Count(ops, "requests"), "follows")
    /\ inflight' = r.location
    /\ UNCHANGED << pc, w, ret, authURL, currentURL, i >>

\* client.Get(url) / client.Do(req) is called: one request is in flight.
Send(url, o) ==
    /\ o.requests < MaxRequests
    /\ ops' = Count(o, "requests")
    /\ inflight' = url

\* A loop iteration that requests the current URL whatever its scheme.
FollowLoop_NoCheck(k, url) ==
    IF k >= MaxHops
    THEN /\ Return(w, "", "failed to complete redirect chain")
         /\ UNCHANGED << currentURL, i, inflight, ops >>
    ELSE /\ Send(url, Count(ops, "follows"))
         /\ currentURL' = url
         /\ i' = k
         /\ pc' = "follow"
         /\ UNCHANGED << w, ret >>

\* One iteration of the followRedirects loop up to its client.Get, with
\* loop counter k and current URL url.
FollowLoop(k, url) ==
    IF k >= MaxHops
    THEN /\ Return(w, "", "failed to complete redirect chain")
         /\ UNCHANGED << currentURL, i, inflight, ops >>
    ELSE IF HasPrefix(url, redirectPrefix)
    THEN /\ Return(w, extractCode(url).code, extractCode(url).err)
         /\ UNCHANGED << currentURL, i, inflight, ops >>
    ELSE /\ Send(url, Count(ops, "follows"))
         /\ currentURL' = url
         /\ i' = k
         /\ pc' = "follow"
         /\ UNCHANGED << w, ret >>

\* handleOAuth calls performOAuth, which fetches the configs document.
PerformOAuthManual ==
    /\ pc = "perform"
    /\ variant = "manual"
    /\ pc' = "configs"
    /\ ops' = Count(ops, "configs")
    /\ UNCHANGED << aside, loginData, variant, req, w, ret, authURL, ctx,
                    timedOut, oauthCode, currentURL, i, inflight >>

ConfigOutcomes == {"ok", "neterr", "badjson"}

\* http.Get(configsURL) returns and the document is decoded; then the
\* lookup, the client, the authorization URL and client.Get(authURL).
ConfigsResponse(o) ==
    /\ pc = "configs"
    /\ UNCHANGED << aside, loginData, variant, req, ctx, timedOut, oauthCode,
                    currentURL, i >>
    /\ IF o = "neterr"
       THEN /\ Return(w, "", "failed to fetch configs: connection refused")
            /\ UNCHANGED << authURL, inflight, ops >>
       ELSE IF o = "badjson"
       THEN /\ Return(w, "", "failed to parse configs: unexpected EOF")
            /\ UNCHANGED << authURL, inflight, ops >>
       ELSE IF LookupError(Configs, req) # ""
       THEN /\ Return(w, "", LookupError(Configs, req))
            /\ UNCHANGED << authURL, inflight, ops >>
       ELSE /\ authURL' = AuthURL(BrandConfig, CountryConfig, req.country)
            /\ Send(authURL', Count(ops, "authGets"))
            /\ pc' = "authget"
            /\ UNCHANGED << w, ret >>

\* The form values that performOAuth posts: username, password and
\* rememberMe, then every hidden field of the page with loginData.Set.
LoginData(r, hiddenFields) ==
    LET own == Set(Set(Set(NoValues, "username", r.email),
                       "password", r.password), "rememberMe", "false")
    IN  [k \in DOMAIN own \cup DOMAIN hiddenFields |->
            IF k \in DOMAIN hiddenFields THEN hiddenFields[k] ELSE own[k]]

\* client.Get(authURL) gets an answer; the body is read, the form action
\* and the hidden fields are extracted and the login form is posted.
AuthResponse(r, readOK) ==
    /\ pc = "authget"
    /\ MayAnswer(r)
    /\ UNCHANGED << aside, variant, req, ctx, timedOut, oauthCode >>
    /\ IF r = NetErr
       THEN /\ readOK
            /\ Return(w, "",
                 "failed to access authorization page: connection refused")
            /\ UNCHANGED << authURL, currentURL, i, inflight, loginData,
                            ops >>
       ELSE IF ClientFollows(r, BrandConfig.scheme, ops.requests)
       THEN readOK /\ FollowAutomatically(r) /\ UNCHANGED loginData
       ELSE IF ~readOK
       THEN /\ Return(w, "",
                 "failed to read authorization page: unexpected EOF")
            /\ UNCHANGED << authURL, currentURL, i, inflight, loginData,
                            ops >>
       ELSE LET formAction == extractFormAction(r.body, BrandConfig.oauth_url)
            IN  IF formAction = ""
                THEN /\ Return(w, "", "could not find login form")
                     /\ UNCHANGED << authURL, currentURL, i, inflight,
                                     loginData, ops >>
                ELSE /\ loginData' = LoginData(req, extractHiddenFields(r.body))
                     /\ Send(formAction, Count(ops, "loginPosts"))
                     /\ pc' = "loginpost"
                     /\ UNCHANGED << w, ret, authURL, currentURL, i >>

AuthenticationFailed(loginBody) ==
    Contains(loginBody, "error") \/ Contains(loginBody, "invalid")

\* client.Do(loginReq) gets an answer: the Location check, the body (a read
\* error is dropped and leaves what was read), the redirect status, the
\* error heuristic and the redirect found in the page.
LoginResponse(r, readOK) ==
    /\ pc = "loginpost"
    /\ MayAnswer(r)
    /\ UNCHANGED << aside, loginData, variant, req, authURL, ctx, timedOut,
                    oauthCode >>
    /\ IF r = NetErr
       THEN /\ readOK
            /\ Return(w, "", "failed to submit login: connection refused")
            /\ UNCHANGED << currentURL, i, inflight, ops >>
       ELSE IF ClientFollows(r, BrandConfig.scheme, ops.requests)
       THEN readOK /\ FollowAutomatically(r)
       ELSE LET location  == r.location
                loginBody == IF readOK THEN r.body ELSE ""
            IN  IF location # "" /\ HasPrefix(location, redirectPrefix)
                THEN /\ readOK
                     /\ Return(w, extractCode(location).code,
                                  extractCode(location).err)
                     /\ UNCHANGED << currentURL, i, inflight, ops >>
                ELSE IF IsRedirect(r)
                THEN FollowLoop(0, location)
                ELSE IF AuthenticationFailed(loginBody)
                THEN /\ Return(w, "",
                         "authentication failed - please check your credentials")
                     /\ UNCHANGED << currentURL, i, inflight, ops >>
                ELSE LET redirectURL == extractRedirectURL(loginBody)
                     IN  IF redirectURL # ""
                         THEN FollowLoop(0, redirectURL)
                         ELSE /\ Return(w, "",
                                "authentication failed - could not complete OAuth flow")
                              /\ UNCHANGED << currentURL, i, inflight, ops >>

\* client.Get(currentURL) of followRedirects gets an answer; the rest of the
\* iteration, and the next one up to its client.Get.
FollowResponse(r, readOK) ==
    /\ pc = "follow"
    /\ MayAnswer(r)
    /\ UNCHANGED << aside, loginData, variant, req, authURL, ctx, timedOut,
                    oauthCode >>
    /\ IF r = NetErr
       THEN /\ readOK
            /\ Return(w, "", "failed to follow redirect: connection refused")
            /\ UNCHANGED << currentURL, i, inflight, ops >>
       ELSE IF ClientFollows(r, BrandConfig.scheme, ops.requests)
       THEN readOK /\ FollowAutomatically(r)
       ELSE LET body     == IF readOK THEN r.body ELSE ""
                location == IF r.location # "" THEN r.location
                            ELSE extractRedirectURL(body)
            IN  /\ r.location # "" => readOK
                /\ IF location = ""
                   THEN /\ Return(w, "", "failed to complete redirect chain")
                        /\ UNCHANGED << currentURL, i, inflight, ops >>
                   ELSE IF HasPrefix(location, redirectPrefix)
                   THEN /\ Return(w, extractCode(location).code,
                                     extractCode(location).err)
                        /\ UNCHANGED << currentURL, i, inflight, ops >>
                   ELSE FollowLoop(i + 1, location)

(* ---------------------------------------------------------------------- *)
(* Specification                                                           *)
(* ---------------------------------------------------------------------- *)

\* No assignment to oauthCode is under way.
NoAccess == [writing |-> ""]

\* No helper is called on its own, and no other request is in progress.
NoCall == [fn |-> "", args |-> << >>, returned |-> FALSE, result |-> ""]
NoSessions == << >>

NoOps ==
    [ configs |-> 0, contexts |-> 0, navigations |-> 0, submits |-> 0,
      confirms |-> 0, requests |-> 0, authGets |-> 0, loginPosts |-> 0,
      follows |-> 0 ]

Init ==
    /\ variant \in Variants
    /\ req \in Requests
    /\ pc = "start"
    /\ w = NewResponseWriter
    /\ ret = [returned |-> FALSE, code |-> "", err |-> ""]
    /\ authURL = ""
    /\ ctx = NoContexts
    /\ timedOut = FALSE
    /\ oauthCode = ""
    /\ currentURL = ""
    /\ i = 0
    /\ inflight = ""
    /\ loginData = NoValues
    /\ ops = NoOps
    /\ call = NoCall
    /\ sessions = NoSessions
    /\ access = NoAccess

Next ==
    \/ HandleOAuth
    \/ PerformOAuth
    \/ \E o \in RunOutcomes : NavigateReturn(o)
    \/ \E o \in RunOutcomes : WaitFormReturn(o)
    \/ \E o \in RunOutcomes : FillReturn(o)
    \/ \E o \in RunOutcomes : SubmitReturn(o)
    \/ \E o \in RunOutcomes, text \in ErrorTexts : ProbeReturn(o, text)
    \/ \E o \in RunOutcomes : AuthWaitReturn(o)
    \/ \E o \in RunOutcomes : ConfirmReturn(o)
    \/ \E o \in RunOutcomes : SettleReturn(o)
    \/ \E o \in RunOutcomes, url \in ObservedURLs : LocationReturn(o, url)
    \/ \E reqURL \in ObservedURLs : ObserveRequest(reqURL)
    \/ Timeout
    \/ PerformOAuthManual
    \/ \E o \in ConfigOutcomes : ConfigsResponse(o)
    \/ \E r \in PortalResponses, readOK \in BOOLEAN : AuthResponse(r, readOK)
    \/ \E r \in PortalResponses, readOK \in BOOLEAN : LoginResponse(r, readOK)
    \/ \E r \in PortalResponses, readOK \in BOOLEAN : FollowResponse(r, readOK)

Spec == Init /\ [][Next]_vars

\* A chromedp.Run call whose context is past its deadline returns.
DeadlineReturn ==
    \/ NavigateReturn("deadline")
    \/ WaitFormReturn("deadline")
    \/ FillReturn("deadline")
    \/ SubmitReturn("deadline")
    \/ ProbeReturn("deadline", "")
    \/ AuthWaitReturn("deadline")
    \/ ConfirmReturn("deadline")
    \/ SettleReturn("deadline")
    \/ LocationReturn("deadline", "")

\* The handler's own steps are taken and the timer of the timeout context
\* fires; the portal and the browser need not ever answer.
FairSpec ==
    /\ Spec
    /\ WF_vars(HandleOAuth)
    /\ WF_vars(PerformOAuth)
    /\ WF_vars(PerformOAuthManual)
    /\ WF_vars(Timeout)
    /\ WF_vars(DeadlineReturn)


(* ---------------------------------------------------------------------- *)
(* Concurrently handled requests                                           *)
(* ---------------------------------------------------------------------- *)

\* Number of /oauth requests the server handles at the same time.
MaxSessions == 2

\* The variables of the single followed request.
oneRun == << variant, req, pc, w, ret, authURL, ctx, timedOut, oauthCode,
             currentURL, i, inflight, loginData, ops, access >>

\* No single request is followed.
NoRun ==
    /\ variant = "browser"
    /\ req = [ method |-> "POST", decodes |-> TRUE, brand |-> "MyPeugeot",
               country |-> "GB", email |-> "user@example.com",
               password |-> "secret", accept |-> "application/json" ]
    /\ pc = "none"
    /\ w = NewResponseWriter
    /\ ret = [returned |-> FALSE, code |-> "", err |-> ""]
    /\ authURL = ""
    /\ ctx = NoContexts
    /\ timedOut = FALSE
    /\ oauthCode = ""
    /\ currentURL = ""
    /\ i = 0
    /\ inflight = ""
    /\ loginData = NoValues
    /\ ops = NoOps
    /\ access = NoAccess

\* A run whose browser context is the one of the first run.
NewSession_SharedBrowser(id, v) ==
    [ variant        |-> v,
      pc             |-> "running",
      browserCtx     |-> 1,
      redirectPrefix |-> Configs["MyPeugeot"].scheme \o "://",
      oauthCode      |-> "",
      seen           |-> {},
      ret            |-> [code |-> "", err |-> ""] ]

\* The locals of the run of request number id: every call of
\* performChromedpOAuth creates its own allocator and browser context and
\* its own oauthCode, every call of the manual performOAuth its own client
\* and cookie jar.  seen records the codes carried by the session's own
\* traffic.
NewSession(id, v) ==
    [ variant        |-> v,
      pc             |-> "running",
      browserCtx     |-> id,
      redirectPrefix |-> Configs["MyPeugeot"].scheme \o "://",
      oauthCode      |-> "",
      seen           |-> {},
      ret            |-> [code |-> "", err |-> ""] ]

Running(s) == s \in DOMAIN sessions /\ sessions[s].pc = "running"

\* chromedp.ListenTarget(browserCtx, f): the runs whose callback receives
\* the events of browser context target.
Listeners(target) ==
    { s \in DOMAIN sessions :
        /\ Running(s)
        /\ sessions[s].variant = "browser"
        /\ sessions[s].browserCtx = target }

\* The codes a session has seen, with the one of URL u added.
Seen(session, u) ==
    session.seen \cup
        (IF CodeOf(u, session.redirectPrefix) # ""
         THEN {CodeOf(u, session.redirectPrefix)} ELSE {})

\* net/http starts the handler of one more request in its own goroutine.
Accept(v) ==
    /\ Len(sessions) < MaxSessions
    /\ sessions' = Append(sessions, NewSession(Len(sessions) + 1, v))
    /\ UNCHANGED << oneRun, call >>

\* The browser of run b sends a request: every callback listening on its
\* browser context runs and assigns the oauthCode of its own closure.
RequestWillBeSent(b, reqURL) ==
    /\ Running(b)
    /\ sessions[b].variant = "browser"
    /\ sessions' =
         [ s \in DOMAIN sessions |->
             LET heard == IF s \in Listeners(sessions[b].browserCtx)
                          THEN [sessions[s] EXCEPT !.oauthCode =
                                   Captured(@, reqURL, sessions[s].redirectPrefix)]
                          ELSE sessions[s]
             IN  IF s = b THEN [heard EXCEPT !.seen = Seen(sessions[s], reqURL)]
                 ELSE heard ]
    /\ sessions' # sessions
    /\ UNCHANGED << oneRun, call >>

\* performChromedpOAuth of run s returns what its own oauthCode holds.
Finish(s) ==
    /\ Running(s)
    /\ sessions[s].variant = "browser"
    /\ sessions' =
         [sessions EXCEPT ![s].pc = "done",
            ![s].ret = IF sessions[s].oauthCode # ""
                       THEN [code |-> sessions[s].oauthCode, err |-> ""]
                       ELSE [code |-> "", err |->
                         "authentication failed - could not retrieve OAuth code"]]
    /\ UNCHANGED << oneRun, call >>

\* The client of manual run s gets the response to its own request, with a
\* Location that has the custom scheme: extractCode decides the result.
ResponseTo(s, location) ==
    /\ Running(s)
    /\ sessions[s].variant = "manual"
    /\ HasPrefix(location, sessions[s].redirectPrefix)
    /\ sessions' =
         [sessions EXCEPT ![s].pc = "done",
                          ![s].seen = Seen(sessions[s], location),
                          ![s].ret = extractCode(location)]
    /\ UNCHANGED << oneRun, call >>

ConcInit ==
    /\ NoRun
    /\ call = NoCall
    /\ sessions = NoSessions

ConcNext ==
    \/ \E v \in Variants : Accept(v)
    \/ \E b \in 1..MaxSessions, reqURL \in ObservedURLs :
          RequestWillBeSent(b, reqURL)
    \/ \E s \in 1..MaxSessions : Finish(s)
    \/ \E s \in 1..MaxSessions, location \in Locations : ResponseTo(s, location)

ConcSpec == ConcInit /\ [][ConcNext]_vars


(* ---------------------------------------------------------------------- *)
(* The pure helpers, called on their own                                   *)
(* ---------------------------------------------------------------------- *)

\* Brand and country configurations as the configs document holds them.
BrandConfigs ==
    { [ oauth_url |-> "https://idpcvs.peugeot.com",
        realm |-> "clientsB2CPeugeot", scheme |-> "mymap" ],
      [ oauth_url |-> "https://idpcvs.citroen.com",
        realm |-> "clientsB2CCitroen", scheme |-> "mymacsdk" ] }
CountryConfigs ==
    { [ locale |-> "en-GB", client_id |-> "cid-gb", client_secret |-> "sec-gb" ],
      [ locale |-> "fr-FR", client_id |-> "cid-fr", client_secret |-> "sec-fr" ] }
CountryCodes == {"GB", "FR", "be"}

\* A hidden input tag whose three attributes, quoted with q, are written
\* in the order order (1 the type, 2 the name, 3 the value).
AttributeOrders ==
    { << 1, 2, 3 >>, << 1, 3, 2 >>, << 2, 1, 3 >>,
      << 2, 3, 1 >>, << 3, 1, 2 >>, << 3, 2, 1 >> }
HiddenInput(q, order, name, value) ==
    LET attr == << "type=" \o q \o "hidden" \o q,
                   "name=" \o q \o name \o q,
                   "value=" \o q \o value \o q >>
    IN  "<input " \o attr[order[1]] \o " " \o attr[order[2]] \o " "
            \o attr[order[3]] \o ">"

\* What may follow the first hidden input of a page.
MoreInputs ==
    { "", "<input type=\"hidden\" name=\"b\" value=\"2\">",
      "<input type=\"text\" name=\"username\" value=\"\">" }
HiddenPages ==
    { HiddenInput(q, order, "a", "1") \o more :
        q \in Quotes, order \in AttributeOrders, more \in MoreInputs }

\* A page whose first form tag has the action action, quoted with q.
Before == {"", "<div>sign in</div>"}
After == {" method=\"post\">", "><form action=\"/second\">"}
FormPage(before, q, action, after) ==
    before \o "<form id=\"f\" action=" \o q \o action \o q \o after
FormActions == {"/login", "https://example.com/login", "login"}
FormPages ==
    { FormPage(before, q, action, after) :
        before \in Before, q \in Quotes, action \in FormActions, after \in After }
NoFormPages == {"<div>no form here</div>", "", "<input name=\"action\">"}
BaseURLs == {"https://x", "https://example.com"}

\* A redirect URL with the query parameters params (pairs of key, value).
RECURSIVE QueryOf(_, _)
QueryOf(params, k) ==
    IF k > Len(params) THEN ""
    ELSE (IF k > 1 THEN "&" ELSE "") \o params[k][1] \o "=" \o params[k][2]
             \o QueryOf(params, k + 1)
RedirectURL(params) ==
    "mymap://oauth2redirect/gb"
        \o (IF params = << >> THEN "" ELSE "?" \o QueryOf(params, 1))
Params ==
    { << >>,
      << << "code", "abc123xyz" >> >>,
      << << "code", "" >> >>,
      << << "error", "access_denied" >> >>,
      << << "error", "access_denied" >>, << "error_description", "no" >> >>,
      << << "state", "s1" >>, << "code", "abc123" >> >>,
      << << "code", "abc123" >>, << "state", "s1" >> >>,
      << << "code", "abc123" >>, << "code", "xyz789" >> >>,
      << << "code", "4%2F0Ab" >>, << "state", "s1" >> >>,
      << << "xcode", "abc123" >> >>,
      << << "codex", "abc123" >>, << "scope", "openid" >> >> }

\* The calls made: a helper and its arguments.
Calls ==
    [ fn : {"AuthURL"},
      args : BrandConfigs \X CountryConfigs \X CountryCodes,
      returned : {FALSE}, result : {""} ]
    \cup [ fn : {"extractHiddenFields"},
           args : { << html >> : html \in HiddenPages },
           returned : {FALSE}, result : {""} ]
    \cup [ fn : {"extractFormAction"},
           args : (FormPages \cup NoFormPages) \X BaseURLs,
           returned : {FALSE}, result : {""} ]
    \cup [ fn : {"extractCode"},
           args : { << RedirectURL(params) >> : params \in Params },
           returned : {FALSE}, result : {""} ]

Returns(result) ==
    /\ ~call.returned
    /\ call' = [call EXCEPT !.returned = TRUE, !.result = result]
    /\ UNCHANGED << oneRun, sessions >>

CallAuthURL ==
    /\ call.fn = "AuthURL"
    /\ Returns(AuthURL(call.args[1], call.args[2], call.args[3]))

CallExtractHiddenFields ==
    /\ call.fn = "extractHiddenFields"
    /\ Returns(extractHiddenFields(call.args[1]))

CallExtractFormAction ==
    /\ call.fn = "extractFormAction"
    /\ Returns(extractFormAction(call.args[1], call.args[2]))

CallExtractCode ==
    /\ call.fn = "extractCode"
    /\ Returns(extractCode(call.args[1]))

HelperInit ==
    /\ NoRun
    /\ sessions = NoSessions
    /\ call \in Calls

HelperNext ==
    \/ CallAuthURL
    \/ CallExtractHiddenFields
    \/ CallExtractFormAction
    \/ CallExtractCode

HelperSpec == HelperInit /\ [][HelperNext]_vars


(* ---------------------------------------------------------------------- *)
(* The captured code, one memory access at a time                          *)
(* ---------------------------------------------------------------------- *)

\* oauthCode is a plain local string of performChromedpOAuth.  The
\* ListenTarget callback assigns it on the browser's event goroutine and the
\* request's goroutine reads it; no lock, channel or atomic orders the two.
\* Here the assignment takes two steps, so that a read can fall in between.

\* A string header with the data pointer of "" and the length of the code:
\* what a read can see when it falls between the two words of the write.
\* Its bytes cannot be read.
Torn == "<nil>"

\* What a read of oauthCode can yield.
Reads ==
    IF access.writing = "" THEN {oauthCode}
    ELSE {oauthCode, access.writing}
         \cup (IF Len(oauthCode) # Len(access.writing) THEN {Torn} ELSE {})

\* The callback starts to assign the code of a request the browser sends.
BeginWrite(reqURL) ==
    /\ pc \in {"navigate", "waitform", "fill", "submit", "probe", "authwait",
               "confirm", "settle", "location"}
    /\ ctx.browser = "live"
    /\ ~timedOut
    /\ access.writing = ""
    /\ Captured(oauthCode, reqURL, redirectPrefix) # oauthCode
    /\ access' = [writing |-> Captured(oauthCode, reqURL, redirectPrefix)]
    /\ UNCHANGED << call, sessions, loginData, variant, req, pc, w, ret,
                    authURL, ctx, timedOut, oauthCode, currentURL, i,
                    inflight, ops >>

\* The assignment is complete.
EndWrite ==
    /\ access.writing # ""
    /\ oauthCode' = access.writing
    /\ access' = NoAccess
    /\ UNCHANGED << call, sessions, loginData, variant, req, pc, w, ret,
                    authURL, ctx, timedOut, currentURL, i, inflight, ops >>

\* performChromedpOAuth returns the value it read.  The handler that formats
\* a torn value faults on its bytes: net/http recovers the panic and closes
\* the connection, and nothing more is written.
RacyReturn(wr, seen) ==
    IF seen = Torn
    THEN /\ ret' = [returned |-> TRUE, code |-> Torn, err |-> ""]
         /\ w' = wr
         /\ pc' = "done"
         /\ ctx' = DeferredCancels(ctx)
    ELSE ChromedpReturn(wr, seen, "")

\* chromedp.Run(Click(submit), Sleep(5s)) returns and the early exit reads
\* oauthCode.
EarlyExitRead(o) ==
    /\ pc = "submit"
    /\ CanReturn(o)
    /\ UNCHANGED << aside, loginData, variant, req, authURL, timedOut,
                    oauthCode, currentURL, i, inflight, ops >>
    /\ IF o # "ok"
       THEN ChromedpReturn(w, "", "failed to submit login: " \o ErrText(o))
       ELSE \E seen \in Reads :
              IF seen # ""
              THEN RacyReturn(progress(w, "Authentication successful!"),
                              seen)
              ELSE /\ pc' = "probe"
                   /\ UNCHANGED << w, ret, ctx >>

\* chromedp.Run(Sleep(5s)) returns and the final check reads oauthCode.
FinalRead(o) ==
    /\ pc = "settle"
    /\ CanReturn(o)
    /\ UNCHANGED << aside, loginData, variant, req, authURL, timedOut,
                    oauthCode, currentURL, i, inflight, ops >>
    /\ \E seen \in Reads :
         IF seen # ""
         THEN RacyReturn(w, seen)
         ELSE /\ pc' = "location"
              /\ UNCHANGED << w, ret, ctx >>

RaceInit == Init /\ variant = "browser"

RaceNext ==
    \/ HandleOAuth
    \/ PerformOAuth
    \/ \E o \in RunOutcomes : NavigateReturn(o)
    \/ \E o \in RunOutcomes : WaitFormReturn(o)
    \/ \E o \in RunOutcomes : FillReturn(o)
    \/ \E o \in RunOutcomes : EarlyExitRead(o)
    \/ \E o \in RunOutcomes, text \in ErrorTexts : ProbeReturn(o, text)
    \/ \E o \in RunOutcomes : AuthWaitReturn(o)
    \/ \E o \in RunOutcomes : ConfirmReturn(o)
    \/ \E o \in RunOutcomes : FinalRead(o)
    \/ \E o \in RunOutcomes, url \in ObservedURLs : LocationReturn(o, url)
    \/ \E reqURL \in ObservedURLs : BeginWrite(reqURL)
    \/ EndWrite
    \/ Timeout

RaceSpec == RaceInit /\ [][RaceNext]_vars


(* ---------------------------------------------------------------------- *)
(* Properties                                                              *)
(* ---------------------------------------------------------------------- *)

Done == pc = "done"
Decoded == req.method = "POST" /\ req.decodes
FieldsPresent ==
    req.brand # "" /\ req.country # "" /\ req.email # "" /\ req.password # ""
Validated == Decoded /\ FieldsPresent

IsProgressEvent(e) == HasPrefix(e, "data: {\"type\":\"progress\",")
IsErrorEvent(e) == HasPrefix(e, "data: {\"type\":\"error\",")
IsSuccessEvent(e) == HasPrefix(e, "data: {\"type\":\"success\",")
IsTerminalEvent(e) == IsErrorEvent(e) \/ IsSuccessEvent(e)

IsPrefixOf(a, b) == Len(a) <= Len(b) /\ SubSeq(b, 1, Len(a)) = a

\* C1: a POST whose decoded body lacks one of the four fields is answered
\* 400 / "error" / "All fields are required", whatever the variant and the
\* Accept header, and no automation step is ever performed for it: no
\* config lookup, no browser context, no portal request, no progress event.
C1_MissingFieldsRejected ==
    (Decoded /\ ~FieldsPresent) =>
        /\ ops = NoOps
        /\ ctx = NoContexts
        /\ w.events = << >>
        /\ pc \in {"start", "done"}
        /\ Done => /\ w.status = 400
                   /\ w.body = [status |-> "error",
                                message |-> "All fields are required"]

C1_Witness ==
    /\ Done
    /\ Decoded
    /\ req.password = ""
    /\ req.brand # "" /\ req.country # "" /\ req.email # ""
    /\ req.accept = "text/event-stream"
    /\ w.status = 400

\* C2 as stated: an unknown brand, or an unknown country of a known brand,
\* is answered with HTTP status 400 and the message naming it, in buffered
\* and in streamed mode alike.
C2_Orig ==
    (variant = "browser" /\ Done /\ Validated) =>
        /\ req.brand \notin DOMAIN Configs =>
              /\ w.status = 400
              /\ ret.err = "unknown brand: " \o req.brand
        /\ (req.brand \in DOMAIN Configs
            /\ req.country \notin DOMAIN Configs[req.brand].configs) =>
              /\ w.status = 400
              /\ ret.err = "unknown country for brand " \o req.brand
                              \o ": " \o req.country

\* The answer of the server with the two delivery modes to an error msg of
\* the lookup: buffered, status 400 and the JSON error payload; streamed,
\* the stream is already open with status 200 and msg is the terminal
\* error event.
LookupAnswer(msg) ==
    IF req.accept = "text/event-stream"
    THEN /\ w.status = 200
         /\ w.events # << >>
         /\ w.events[Len(w.events)] = ErrorEvent(msg)
    ELSE /\ w.status = 400
         /\ w.body = [status |-> "error", message |-> msg]

\* C2 (amended): an unknown brand, or an unknown country of a known brand,
\* is answered with the message naming it; in buffered mode with HTTP
\* status 400 and the JSON error payload, in streamed mode as the terminal
\* error event of a stream whose HTTP status is 200.
C2_UnknownBrandOrCountry ==
    (variant = "browser" /\ Done /\ Validated) =>
        /\ req.brand \notin DOMAIN Configs =>
              LookupAnswer("unknown brand: " \o req.brand)
        /\ (req.brand \in DOMAIN Configs
            /\ req.country \notin DOMAIN Configs[req.brand].configs) =>
              LookupAnswer("unknown country for brand " \o req.brand
                              \o ": " \o req.country)

C2_Witness ==
    /\ variant = "browser"
    /\ Done
    /\ Validated
    /\ req.brand = "Trabant"
    /\ req.accept = "text/event-stream"
    /\ w.status = 200
    /\ IsErrorEvent(w.events[Len(w.events)])

\* C3: in streamed mode a validated request's events are progress events
\* followed, once the run has ended, by exactly one terminal event that
\* carries the code or the error message; a terminal event is always the
\* last event written, and every written event has been flushed.
C3_StreamIsProgressThenOneTerminal ==
    (Streamed /\ Validated) =>
        /\ w.flushed = Len(w.events)
        /\ \A k \in 1..Len(w.events) :
              /\ IsProgressEvent(w.events[k]) \/ IsTerminalEvent(w.events[k])
              /\ IsTerminalEvent(w.events[k]) => k = Len(w.events) /\ Done
        /\ Done =>
              /\ w.events # << >>
              /\ w.events[Len(w.events)] =
                    IF ret.err # "" THEN ErrorEvent(ret.err)
                                    ELSE SuccessEvent(ret.code)

C3_Witness ==
    /\ Streamed
    /\ Validated
    /\ Done
    /\ Len(w.events) >= 7
    /\ IsSuccessEvent(w.events[Len(w.events)])
    /\ \A k \in 1..(Len(w.events) - 1) : IsProgressEvent(w.events[k])

CommonSteps ==
    << "Preparing authentication...", "Starting browser...",
       "Loading login page...", "Waiting for login form...",
       "Entering credentials...", "Submitting login..." >>
DirectSteps == CommonSteps \o << "Authentication successful!" >>
ConfirmedSteps ==
    CommonSteps \o << "Waiting for authorization...",
                      "Confirming authorization..." >>

ProgressEvents(steps) == [k \in 1..Len(steps) |-> ProgressEvent(steps[k])]

Delivered == SelectSeq(w.events, IsProgressEvent)

\* C4: the progress phrases delivered so far are, in order and without
\* repetition, the first steps of one of the two fixed step sequences: the
\* six common steps, then either "Authentication successful!" or "Waiting
\* for authorization..." and then possibly "Confirming authorization...".
C4_ProgressInStepOrder ==
    \/ IsPrefixOf(Delivered, ProgressEvents(DirectSteps))
    \/ IsPrefixOf(Delivered, ProgressEvents(ConfirmedSteps))

C4_Witness ==
    /\ Done
    /\ Delivered = ProgressEvents(ConfirmedSteps)

\* C5: a buffered response carries exactly one of the two payloads: status
\* "success" with data.code set and no message, or status "error" with a
\* non-empty message and no data.
C5_ExactlyOnePayload ==
    (Done /\ ~Streamed) =>
        \/ /\ DOMAIN w.body = {"status", "data"}
           /\ w.body.status = "success"
           /\ w.body.data.code # ""
        \/ /\ DOMAIN w.body = {"status", "message"}
           /\ w.body.status = "error"
           /\ w.body.message # ""

C5_Witness ==
    /\ Done
    /\ ~Streamed
    /\ ret.returned
    /\ w.body.status = "success"
    /\ w.body.data.code = "abc123"

\* C6 as stated: a browser-driven run whose 120 s timeout expired before
\* the flow returned ends with an error, never with success.
C6_Orig ==
    (variant = "browser" /\ Done /\ timedOut) => ret.err # ""

\* C7 as stated: in the manual variant the requests made to follow
\* redirects (by the client or by followRedirects) never exceed the fixed
\* maximum of 10 hops.
C7_Orig ==
    variant = "manual" => ops.follows <= MaxHops

\* C8 as stated: every request that passes validation eventually produces
\* its result, in both variants, even when the portal never answers.
C8_Orig == (pc = "perform") ~> Done

\* C9: a browser-driven run that reaches the automator allocates exactly
\* one browser context, and when the run has produced its result (success,
\* error or timeout) the timeout context, the allocator and the browser
\* context are all cancelled.
C9_ContextsCancelled ==
    variant = "browser" =>
        /\ ops.contexts <= 1
        /\ pc \notin {"start", "perform", "done"} =>
              ops.contexts = 1 /\ ctx = NewContexts
        /\ (Done /\ ops.contexts = 1) =>
              /\ ctx.timeout = "cancelled"
              /\ ctx.alloc = "cancelled"
              /\ ctx.browser = "cancelled"
        /\ (Done /\ ops.contexts = 0) => ctx = NoContexts

C9_Witness ==
    /\ variant = "browser"
    /\ Done
    /\ timedOut
    /\ ops.contexts = 1
    /\ ctx.browser = "cancelled"

\* C10: nothing is retried: one request creates at most one browser
\* context, navigates to the authorize URL at most once, clicks submit at
\* most once, gets the authorize URL at most once and posts the login form
\* at most once, whatever error occurs.
C10_NoRetry ==
    /\ ops.contexts <= 1
    /\ ops.navigations <= 1
    /\ ops.submits <= 1
    /\ ops.authGets <= 1
    /\ ops.loginPosts <= 1

C10_Witness ==
    /\ variant = "browser"
    /\ Done
    /\ ret.err = "failed to submit login: browser error"
    /\ ops.submits = 1

\* C11: for any interleaving of concurrently handled requests, what a run
\* holds and returns comes from its own session: the captured code of a run
\* is one that a request of its own browser carried, the code returned to a
\* request is one seen in its own session's traffic, and a run ends with
\* either a code or an error.
C11_SessionsIsolated ==
    \A s \in DOMAIN sessions :
        /\ sessions[s].oauthCode # "" =>
              sessions[s].oauthCode \in sessions[s].seen
        /\ sessions[s].pc = "done" =>
              /\ sessions[s].ret.code # "" =>
                    sessions[s].ret.code \in sessions[s].seen
              /\ sessions[s].ret.code = "" <=> sessions[s].ret.err # ""

C11_Witness ==
    /\ Len(sessions) = 2
    /\ sessions[1].variant = "browser"
    /\ sessions[2].variant = "browser"
    /\ sessions[1].pc = "done"
    /\ sessions[1].ret.code = "abc123"
    /\ sessions[2].pc = "running"
    /\ sessions[2].oauthCode = "xyz789"
    /\ sessions[2].seen = {"xyz789"}

\* A step of the automation returns an error: a chromedp.Run call, the
\* fetch of the configs, a request of the HTTP client, or an io.ReadAll of
\* a response body.  (The wait for the authorize button is left out: its
\* error is the signal that there is no button to click.)
StepFails ==
    \/ \E o \in RunOutcomes \ {"ok"} :
          \/ NavigateReturn(o) \/ WaitFormReturn(o) \/ FillReturn(o)
          \/ SubmitReturn(o) \/ ConfirmReturn(o) \/ SettleReturn(o)
          \/ \E text \in ErrorTexts : ProbeReturn(o, text)
          \/ \E url \in ObservedURLs : LocationReturn(o, url)
    \/ \E o \in ConfigOutcomes \ {"ok"} : ConfigsResponse(o)
    \/ \E readOK \in BOOLEAN :
          \/ AuthResponse(NetErr, readOK)
          \/ LoginResponse(NetErr, readOK)
          \/ FollowResponse(NetErr, readOK)
    \/ \E r \in PortalResponses :
          \/ AuthResponse(r, FALSE)
          \/ LoginResponse(r, FALSE)
          \/ FollowResponse(r, FALSE)

\* C12 as stated: whenever an automation step returns an error, the run
\* ends there with an error result; no step's error is dropped while the
\* run goes on.
C12_Orig ==
    [][StepFails => (pc' = "done" /\ ret'.returned /\ ret'.err # "")]_vars

\* JSON text: the characters that may follow a backslash in a string.
JSONEscapes == {"\"", "\\", "/", "b", "f", "n", "r", "t", "u"}

\* Position after the closing quote of a JSON string whose characters start
\* at position k of s, 0 when the string is not well formed: a raw control
\* character or an unknown escape, or no closing quote.
RECURSIVE JSONStringRest(_, _)
JSONStringRest(s, k) ==
    IF k > Len(s) THEN 0
    ELSE IF CharAt(s, k) = "\"" THEN k + 1
    ELSE IF CharAt(s, k) \in {"\t", "\n", "\r", "\f"} THEN 0
    ELSE IF CharAt(s, k) = "\\"
    THEN IF k + 1 <= Len(s) /\ CharAt(s, k + 1) \in JSONEscapes
         THEN JSONStringRest(s, k + 2) ELSE 0
    ELSE JSONStringRest(s, k + 1)

\* Position after the JSON string that starts at position k of s, 0 when
\* no well-formed string starts there.
JSONString(s, k) ==
    IF k >= 1 /\ k <= Len(s) /\ CharAt(s, k) = "\"" THEN JSONStringRest(s, k + 1)
    ELSE 0

\* TRUE iff s from position k on is  "key":"value"  pairs separated by
\* commas and closed by the } that ends s.
RECURSIVE JSONMembers(_, _)
JSONMembers(s, k) ==
    LET colon == JSONString(s, k)
        after == IF colon # 0 /\ CharAt(s, colon) = ":"
                 THEN JSONString(s, colon + 1) ELSE 0
    IN  /\ after # 0
        /\ after <= Len(s)
        /\ \/ CharAt(s, after) = "}" /\ after = Len(s)
           \/ CharAt(s, after) = "," /\ JSONMembers(s, after + 1)

\* TRUE iff s is a JSON object whose members are strings.
IsJSONObject(s) == Len(s) >= 2 /\ CharAt(s, 1) = "{" /\ JSONMembers(s, 2)

\* An event of the stream:  data: <JSON object>  and an empty line.
WellFormedEvent(e) ==
    /\ HasPrefix(e, "data: ")
    /\ Len(e) >= 8
    /\ SubSeq(e, Len(e) - 1, Len(e)) = "\n\n"
    /\ IsJSONObject(SubSeq(e, 7, Len(e) - 2))

\* C13 as stated: every event written in streamed mode is a well-formed
\* JSON payload, whatever the phrase, the code or the error message.
C13_Orig ==
    \A k \in 1..Len(w.events) : WellFormedEvent(w.events[k])

\* C14: a request whose method is not POST is answered 405 with the error
\* payload "Method not allowed", whether or not its body decodes, whatever
\* its fields and its Accept header, and nothing is performed for it: no
\* config lookup, no browser context, no portal request, no event.
C14_MethodNotAllowed ==
    req.method # "POST" =>
        /\ ops = NoOps
        /\ ctx = NoContexts
        /\ w.events = << >>
        /\ authURL = ""
        /\ ~ret.returned
        /\ pc \in {"start", "done"}
        /\ Done => /\ w.status = 405
                   /\ w.contentType = "application/json"
                   /\ w.body = [status |-> "error",
                                message |-> "Method not allowed"]

C14_Witness ==
    /\ Done
    /\ req.method = "GET"
    /\ req.decodes
    /\ FieldsPresent
    /\ req.brand = "MyPeugeot"
    /\ req.accept = "text/event-stream"
    /\ w.status = 405

\* The country codes of the calls, in lower case.
LowerCase == [c \in CountryCodes |->
                 CASE c = "GB" -> "gb" [] c = "FR" -> "fr" [] c = "be" -> "be"]

\* C15: for a brand configuration, a country configuration and a country
\* code, the URL built is <oauth_url>/am/oauth2/authorize with the query
\* client_id = the configured client id, response_type = code,
\* redirect_uri = <scheme>://oauth2redirect/<country in lower case> with
\* its : and / percent-encoded, scope = openid profile email and locale =
\* the configured locale; nothing else (no realm, no client secret, no
\* field of the request) enters the URL.
C15_AuthorizeURL ==
    (call.fn = "AuthURL" /\ call.returned) =>
        LET brandConfig   == call.args[1]
            countryConfig == call.args[2]
        IN  call.result =
                brandConfig.oauth_url \o "/am/oauth2/authorize"
                    \o "?client_id=" \o countryConfig.client_id
                    \o "&response_type=code"
                    \o "&redirect_uri=" \o brandConfig.scheme
                    \o "%3A%2F%2Foauth2redirect%2F" \o LowerCase[call.args[3]]
                    \o "&scope=openid%20profile%20email"
                    \o "&locale=" \o countryConfig.locale

C15_Witness ==
    /\ call.fn = "AuthURL"
    /\ call.returned
    /\ call.args[1].scheme = "mymacsdk"
    /\ call.args[3] = "FR"
    /\ call.result =
         "https://idpcvs.citroen.com/am/oauth2/authorize?client_id=cid-fr&response_type=code&redirect_uri=mymacsdk%3A%2F%2Foauth2redirect%2Ffr&scope=openid%20profile%20email&locale=fr-FR"

\* The client secrets of the configuration.
Secrets ==
    UNION { { Configs[b].configs[c].client_secret :
                c \in DOMAIN Configs[b].configs } : b \in DOMAIN Configs }

\* TRUE iff text holds a client secret.
Leaks(text) ==
    \E secret \in Secrets, k \in 1..Len(text) : OccursAt(text, secret, k)

\* C16: the client secret of a country is never transmitted: it is not in
\* the authorization URL, not in the URL or the form values of a request
\* to the portal, and not in the response (status payload, events) given
\* to the caller.
C16_SecretNeverSent ==
    /\ ~Leaks(authURL)
    /\ ~Leaks(inflight)
    /\ ~Leaks(currentURL)
    /\ \A k \in DOMAIN loginData : ~Leaks(k) /\ ~Leaks(loginData[k])
    /\ \A k \in 1..Len(w.events) : ~Leaks(w.events[k])
    /\ "message" \in DOMAIN w.body => ~Leaks(w.body.message)
    /\ "data" \in DOMAIN w.body => ~Leaks(w.body.data.code)
    /\ ~Leaks(ret.code) /\ ~Leaks(ret.err)

C16_Witness ==
    /\ variant = "manual"
    /\ Done
    /\ req.brand = "MyPeugeot"
    /\ req.country = "GB"
    /\ Secrets = {"sec-gb"}
    /\ Contains(authURL, "client_id=cid-gb")
    /\ loginData # NoValues
    /\ ret.code = "abc123"

\* C17 as stated: from a page with the hidden input of name a and value 1,
\* its three attributes written in any order, extractHiddenFields returns
\* the pair a: "1", and with it every other hidden input of the page.
C17_Orig ==
    (call.fn = "extractHiddenFields" /\ call.returned) =>
        \A q \in Quotes, order \in AttributeOrders, more \in MoreInputs :
            call.args[1] = HiddenInput(q, order, "a", "1") \o more =>
                /\ "a" \in DOMAIN call.result
                /\ call.result["a"] = "1"
                /\ Contains(more, "hidden") =>
                      /\ "b" \in DOMAIN call.result
                      /\ call.result["b"] = "2"

Unescaped(v) == IF v = "4%2F0Ab" THEN "4/0Ab" ELSE v

\* C19: from a redirect URL whose query has a code parameter with a value,
\* extractCode returns that value (of the first such parameter, unescaped)
\* and no error; from a URL without a code parameter (no query, or only
\* other parameters such as error=access_denied), and from one whose code
\* is empty, it returns the empty code and an error.
C19_ExtractCode ==
    (call.fn = "extractCode" /\ call.returned) =>
        \A params \in Params :
            call.args[1] = RedirectURL(params) =>
                LET codes == { k \in 1..Len(params) : params[k][1] = "code" }
                    first == CHOOSE k \in codes : \A j \in codes : k <= j
                IN  IF codes # {} /\ params[first][2] # ""
                    THEN /\ call.result.code = Unescaped(params[first][2])
                         /\ call.result.err = ""
                    ELSE /\ call.result.code = ""
                         /\ call.result.err # ""

C19_Witness ==
    /\ call.fn = "extractCode"
    /\ call.returned
    /\ call.args[1] = "mymap://oauth2redirect/gb?error=access_denied"
    /\ call.result = [code |-> "", err |-> "no code found in redirect URL"]

\* C20 as stated: in a browser-driven run the captured code is set at most
\* once: after the first request with the custom scheme prefix and a code,
\* a later such request with another code leaves it unchanged.
C20_Orig ==
    [][(variant = "browser" /\ oauthCode # "") => oauthCode' = oauthCode]_vars

\* C21: a validated request whose brand or country is not configured never
\* gets to the automation: no context is created, no authorization URL is
\* built or requested, no login form is posted, and when performOAuth has
\* returned it returned no code and the unknown-brand / unknown-country
\* error (in the manual variant, which downloads the configuration first,
\* possibly the error of that download instead).
C21_UnknownBeforeAutomation ==
    (Validated /\ LookupError(Configs, req) # "") =>
        /\ pc \in {"start", "perform", "configs", "done"}
        /\ ctx = NoContexts
        /\ authURL = ""
        /\ inflight = ""
        /\ loginData = NoValues
        /\ oauthCode = ""
        /\ \A step \in DOMAIN ops \ {"configs"} : ops[step] = 0
        /\ ret.returned =>
              /\ ret.code = ""
              /\ \/ ret.err = LookupError(Configs, req)
                 \/ /\ variant = "manual"
                    /\ ret.err \in
                          {"failed to fetch configs: connection refused",
                           "failed to parse configs: unexpected EOF"}

C21_Witness ==
    /\ variant = "manual"
    /\ Validated
    /\ req.brand = "MyPeugeot"
    /\ req.country = "ZZ"
    /\ Done
    /\ ret.err = "unknown country for brand MyPeugeot: ZZ"
    /\ ops.configs = 1

\* C22: when the click-and-sleep of the submit step returns and a code has
\* been captured by then, the run ends at once with success and that code:
\* the flow does not go on to the error probe, the confirmation or the
\* current-URL extraction.  (When the click-and-sleep itself fails, the run
\* ends with its error.)
C22_EarlyExit ==
    [][(variant = "browser" /\ pc = "submit" /\ pc' # "submit"
            /\ oauthCode # "") =>
        /\ pc' = "done"
        /\ ret'.returned
        /\ \/ ret'.err = "" /\ ret'.code = oauthCode
           \/ /\ ret'.code = ""
              /\ ret'.err \in { "failed to submit login: " \o ErrText(o) :
                                  o \in RunOutcomes \ {"ok"} }
        /\ ~timedOut => (ret'.err = "" \/ ret'.err =
                            "failed to submit login: browser error")]_vars

C22_Witness ==
    /\ variant = "browser"
    /\ Done
    /\ req.accept = "text/event-stream"
    /\ ret.code = "abc123"
    /\ ret.err = ""
    /\ w.events[Len(w.events) - 1] = ProgressEvent("Authentication successful!")
    /\ w.events[Len(w.events)] = SuccessEvent("abc123")

\* C23: when the run has passed the early exit without a code and the page
\* evaluation of the error probe completes with a non-empty text, the run
\* ends there with no code and the error "authentication failed: <text>";
\* the step after the probe is either that end or the wait for the
\* authorization button, and only the former when text was found.
C23_ErrorProbe ==
    [][/\ \A text \in ErrorTexts \ {""} :
            ProbeReturn("ok", text) =>
                /\ pc' = "done"
                /\ ret' = [returned |-> TRUE, code |-> "",
                           err |-> "authentication failed: " \o text]
                /\ ops' = ops
                /\ ctx'.browser = "cancelled"
       /\ (pc = "probe" /\ pc' # "probe") =>
            \/ pc' = "authwait" /\ ~ret'.returned
            \/ /\ pc' = "done"
               /\ ret'.code = ""
               /\ \E text \in ErrorTexts \ {""} :
                      ret'.err = "authentication failed: " \o text]_vars

C23_Witness ==
    /\ variant = "browser"
    /\ Done
    /\ ret.returned
    /\ ret.code = ""
    /\ ret.err = "authentication failed: Invalid login or password"
    /\ w.status = 400

\* C24 as stated: the wait for the confirmation button has a bound of its
\* own: when it ends without the button having become visible, the flow
\* goes on to the final settle with the 120 s deadline not yet passed.
C24_Orig ==
    [][(variant = "browser" /\ pc = "authwait" /\ pc' = "settle") =>
            ~timedOut']_vars

\* C25 as stated: when the final step is reached with no code captured,
\* also on the path where no confirmation button was clicked, and the
\* browser (which has not failed) is at a URL with the custom scheme prefix
\* and a non-empty code, the run returns success with that code.
C25_Orig ==
    [][\A o \in RunOutcomes \ {"failed"}, url \in ObservedURLs :
          (/\ variant = "browser"
           /\ pc = "location"
           /\ ops.confirms = 0
           /\ CodeOf(url, redirectPrefix) # ""
           /\ LocationReturn(o, url)) =>
                (ret'.err = "" /\ ret'.code = CodeOf(url, redirectPrefix))]_vars

\* Answers to the authorization GET that the client hands to the flow and
\* whose page has no <form ... action=...>.
NoFormAnswers ==
    { [status |-> 200, location |-> "", body |-> "<div>no form here</div>"],
      [status |-> 200, location |-> "", body |-> "<p>invalid credentials</p>"],
      [status |-> 302, location |-> CodeURL,
       body |-> "<div>no form here</div>"] }

\* C26: not finding the login form ends the run.  Browser variant: when the
\* wait for the e-mail input returns an error, performOAuth returns "login
\* form not found (timeout): ..." and the credentials are never filled in
\* nor submitted.  Manual variant: when the authorization page has no form
\* action, performOAuth returns "could not find login form" and no login
\* request is built or sent; a login request only ever goes to the form
\* action found in the page.
C26_NoFormIsTerminal ==
    [][/\ \A o \in RunOutcomes \ {"ok"} :
            WaitFormReturn(o) =>
                /\ pc' = "done"
                /\ ret' = [returned |-> TRUE, code |-> "",
                           err |-> "login form not found (timeout): "
                                      \o ErrText(o)]
                /\ ops'.submits = 0
       /\ \A r \in NoFormAnswers :
            (/\ variant = "manual"
             /\ pc = "authget"
             /\ AuthResponse(r, TRUE)) =>
                /\ pc' = "done"
                /\ ret' = [returned |-> TRUE, code |-> "",
                           err |-> "could not find login form"]
                /\ ops' = ops
                /\ ops'.loginPosts = 0
                /\ loginData' = NoValues
                /\ inflight' = inflight
       /\ (variant = "manual" /\ pc = "authget" /\ pc' # "authget") =>
            \/ pc' = "done" /\ ret'.err # "" /\ ops'.loginPosts = 0
                   /\ loginData' = NoValues
            \/ pc' = "loginpost" /\ ops'.loginPosts = 1
                   /\ inflight' = "https://idpcvs.peugeot.com/login"
       /\ (pc = "waitform" /\ pc' \notin {"waitform", "fill"}) =>
                pc' = "done" /\ ret'.err # "" /\ ops'.submits = 0
       /\ (pc = "done" /\ ret.returned
              /\ \/ HasPrefix(ret.err, "login form not found")
                 \/ ret.err = "could not find login form") =>
                UNCHANGED vars]_vars

C26_Witness ==
    /\ variant = "manual"
    /\ Done
    /\ ret.err = "could not find login form"
    /\ ops.authGets = 1
    /\ ops.loginPosts = 0
    /\ loginData = NoValues

\* C27: in the manual variant no request is ever made to a URL that begins
\* with the custom scheme: the URL the HTTP client is requesting, be it the
\* authorization URL, the form action, a redirect the client follows by
\* itself or a hop of followRedirects, never has the prefix <scheme>://,
\* and a run that ended with a code took it from such a URL without
\* requesting it.
C27_CustomSchemeNotFollowed ==
    (variant = "manual" /\ inflight # "") =>
        /\ ~HasPrefix(inflight, redirectPrefix)
        /\ currentURL # "" => ~HasPrefix(currentURL, redirectPrefix)
        /\ (Done /\ ret.code # "") => ret.code = extractCode(CodeURL).code

C27_Witness ==
    /\ variant = "manual"
    /\ Done
    /\ ret.code = "abc123"
    /\ ret.err = ""
    /\ ops.follows >= 2
    /\ inflight = NextURL

\* The redirect target is followed by hand: a target with the custom scheme
\* ends the run with its code (or the error of extractCode when it has
\* none), any other target is requested as hop 0 of followRedirects.
FollowedManually(target, code) ==
    IF HasPrefix(target, "mymap://")
    THEN /\ pc' = "done"
         /\ ret' = [returned |-> TRUE, code |-> code,
                    err |-> IF code # "" THEN ""
                            ELSE "no code found in redirect URL"]
    ELSE /\ pc' = "follow"
         /\ inflight' = target
         /\ currentURL' = target
         /\ i' = 0
         /\ ~ret'.returned

\* Answers to the login POST that the client hands to the flow, whose
\* Location has not the custom scheme and whose body has a script or
\* meta-refresh redirect to target; code is the code that target carries.
BodyRedirectAnswers ==
    { [status |-> 200, location |-> "", target |-> NextURL, code |-> "",
       body |-> "<script>window.location = \"" \o NextURL \o "\"</script>"],
      [status |-> 200, location |-> "", target |-> CodeURL, code |-> "abc123",
       body |-> "<script>location.href='" \o CodeURL \o "'</script>"],
      [status |-> 200, location |-> "", target |-> NextURL, code |-> "",
       body |-> "<meta http-equiv=\"refresh\" content=\"0; url="
                    \o NextURL \o "\">"],
      [status |-> 200, location |-> "", target |-> CodeURL, code |-> "abc123",
       body |-> "<p class=\"error\"></p><script>location.href='" \o CodeURL
                    \o "'</script>"],
      [status |-> 302, location |-> "", target |-> CodeURL, code |-> "abc123",
       body |-> "<script>location.href='" \o CodeURL \o "'</script>"] }

\* The portal's answer of such a case.
Answer(c) == [status |-> c.status, location |-> c.location, body |-> c.body]

LoginAnswered(c) ==
    /\ variant = "manual"
    /\ pc = "loginpost"
    /\ LoginResponse(Answer(c), TRUE)

C29_SuccessOnlyWithCode ==
    ret.returned =>
        /\ (ret.err = "") # (ret.code = "")
        /\ ret.code # "" => ret.code \in {"abc123", "xyz789"}
        /\ (variant = "browser" /\ oauthCode # "") =>
              oauthCode \in {"abc123", "xyz789"}
        /\ Done
        /\ ~Streamed =>
              /\ ret.code # "" =>
                    /\ w.status = 200
                    /\ w.body.status = "success"
                    /\ w.body.data.code = ret.code
              /\ ret.code = "" =>
                    /\ w.status = 400
                    /\ w.body.status = "error"
                    /\ w.body.message = ret.err
        /\ Streamed =>
              w.events[Len(w.events)] =
                  IF ret.code # "" THEN SuccessEvent(ret.code)
                                   ELSE ErrorEvent(ret.err)

C29_Witness ==
    /\ variant = "browser"
    /\ Done
    /\ ret.returned
    /\ ret.err = ""
    /\ ret.code = "xyz789"
    /\ oauthCode = ""
    /\ timedOut = FALSE

\* C30 as stated: the form values of the login POST always have username
\* equal to the request's email, password equal to its password and
\* rememberMe equal to "false", whatever hidden fields the page has.
C30_Orig ==
    (variant = "manual" /\ ops.loginPosts > 0) =>
        /\ loginData["username"] = req.email
        /\ loginData["password"] = req.password
        /\ loginData["rememberMe"] = "false"

\* C31: the observer callback and the main flow never access the captured
\* code concurrently: no step of the main flow reads oauthCode, at the early
\* exit after the submit or at the final check after the last wait, while
\* the callback's assignment to it is under way.
C31_Orig ==
    [][ ( \/ /\ pc = "submit"
             /\ pc' # "submit"
             /\ ~HasPrefix(ret'.err, "failed to submit login: ")
          \/ /\ pc = "settle"
             /\ pc' # "settle" )
        => access.writing = "" ]_vars

====
